---- MODULE Spec2Model ----
(***************************************************************************)
(* c2cli: conversion of object-detection datasets between the COCO, YOLO   *)
(* and Pascal VOC formats through one in-memory Dataset.                   *)
(*                                                                         *)
(* The model has the files on disk (a COCO json, a YOLO label directory    *)
(* with its classes file, a VOC xml directory), the images directory the   *)
(* YOLO reader probes, and one caller that runs a plan of Converter calls: *)
(* convert(A, B), convert(B, A), read(A) for a round trip, or one convert. *)
(* Readers and writers are operators computed the way the code computes    *)
(* them; Python floats are binary floating point of MantissaBits bits.     *)
(***************************************************************************)
EXTENDS Integers, Sequences, FiniteSets, TLC

(***************************************************************************)
(* Optional values (Python None / a value).                                *)
(***************************************************************************)
None == <<>>
Some(v) == <<v>>
IsNone(o) == Len(o) = 0
Val(o) == o[1]

Max(S) == CHOOSE m \in S : \A n \in S : n <= m
Range(s) == {s[i] : i \in DOMAIN s}

(***************************************************************************)
(* Python float arithmetic.  A float is an integer number of ticks, one    *)
(* pixel being 2^FracBits ticks, kept to MantissaBits significant bits     *)
(* with round-half-to-even, as IEEE 754 does with 53 bits.                 *)
(***************************************************************************)
MantissaBits == 4
FracBits == 6
TicksPerPixel == 2^FracBits

Abs(n) == IF n < 0 THEN 0 - n ELSE n

\* n / d rounded to the nearest integer, ties to even (n >= 0, d > 0).
RoundHalfEven(n, d) ==
    LET q == n \div d
        r == n % d
    IN  IF 2 * r > d THEN q + 1
        ELSE IF 2 * r < d THEN q
        ELSE IF q % 2 = 0 THEN q ELSE q + 1

\* The number of low bits a magnitude q loses to fit MantissaBits bits.
RECURSIVE ShiftFor(_)
ShiftFor(q) == IF q < 2^MantissaBits THEN 0 ELSE 1 + ShiftFor(q \div 2)

\* The float nearest to the rational num / den ticks (den > 0).
RoundRat(num, den) ==
    LET a == Abs(num)
        k == ShiftFor(a \div den)
        m == RoundHalfEven(a, den * 2^k) * 2^k
    IN  IF num < 0 THEN 0 - m ELSE m

Fl(n) == RoundRat(n, 1)
IsFloat(n) == Fl(n) = n
FAdd(a, b) == Fl(a + b)
FSub(a, b) == Fl(a - b)
FMul(a, b) == RoundRat(a * b, TicksPerPixel)
FDiv(a, b) == IF b < 0 THEN RoundRat(0 - a * TicksPerPixel, 0 - b)
              ELSE RoundRat(a * TicksPerPixel, b)
\* A Python int used in float arithmetic.
IntToFloat(i) == Fl(i * TicksPerPixel)
\* int(x): truncation toward zero, in pixels.
FloatToInt(n) == IF n < 0 THEN 0 - ((0 - n) \div TicksPerPixel) ELSE n \div TicksPerPixel

(***************************************************************************)
(* models.py                                                               *)
(***************************************************************************)
BBox(x_min, y_min, x_max, y_max) ==
    [x_min |-> x_min, y_min |-> y_min, x_max |-> x_max, y_max |-> y_max]

to_xywh(b) ==
    <<b.x_min, b.y_min, FSub(b.x_max, b.x_min), FSub(b.y_max, b.y_min)>>

from_xywh_NoAdd(x, y, w, h) == BBox(x, y, w, h)
from_xywh(x, y, w, h) == BBox(x, y, FAdd(x, w), FAdd(y, h))

\* to_yolo, from its width and height on: the centers, then the division
\* by the image size.
to_yolo_normalise(x_center, y_center, width, height, img_width, img_height) ==
    <<FDiv(x_center, IntToFloat(img_width)), FDiv(y_center, IntToFloat(img_height)),
      FDiv(width, IntToFloat(img_width)), FDiv(height, IntToFloat(img_height))>>
to_yolo_centers(b, width, height, img_width, img_height) ==
    to_yolo_normalise(FAdd(b.x_min, FDiv(width, IntToFloat(2))),
                      FAdd(b.y_min, FDiv(height, IntToFloat(2))),
                      width, height, img_width, img_height)
\* (x_center, y_center, width, height) normalised by the image size.
to_yolo(b, img_width, img_height) ==
    to_yolo_centers(b, FSub(b.x_max, b.x_min), FSub(b.y_max, b.y_min),
                    img_width, img_height)

\* from_yolo, from w and h on: x and y, then the corners.
from_yolo_corners(x, y, w, h) == BBox(x, y, FAdd(x, w), FAdd(y, h))
from_yolo_origin_NoHalf(x_center, y_center, w, h, img_width, img_height) ==
    from_yolo_corners(FMul(x_center, IntToFloat(img_width)),
                      FMul(y_center, IntToFloat(img_height)), w, h)
from_yolo_origin(x_center, y_center, w, h, img_width, img_height) ==
    from_yolo_corners(
        FSub(FMul(x_center, IntToFloat(img_width)), FDiv(w, IntToFloat(2))),
        FSub(FMul(y_center, IntToFloat(img_height)), FDiv(h, IntToFloat(2))),
        w, h)
from_yolo(x_center, y_center, width, height, img_width, img_height) ==
    from_yolo_origin(x_center, y_center, FMul(width, IntToFloat(img_width)),
                     FMul(height, IntToFloat(img_height)), img_width, img_height)

\* __post_init__: the area defaults to width * height of to_xywh().
Annotation_area(xywh) == FMul(xywh[3], xywh[4])
Annotation(bbox, category_id, category_name, difficult, truncated, area, iscrowd) ==
    [bbox |-> bbox, category_id |-> category_id, category_name |-> category_name,
     difficult |-> difficult, truncated |-> truncated,
     area |-> IF IsNone(area) THEN Annotation_area(to_xywh(bbox)) ELSE Val(area),
     iscrowd |-> iscrowd]

Image(file_name, width, height, annotations, image_id) ==
    [file_name |-> file_name, width |-> width, height |-> height,
     annotations |-> annotations, image_id |-> image_id]

Category(id, name, supercategory) ==
    [id |-> id, name |-> name, supercategory |-> supercategory]

EmptyInfo == "{}"
Dataset(images, categories, info) ==
    [images |-> images, categories |-> categories, info |-> info]
EmptyDataset == Dataset(<<>>, <<>>, EmptyInfo)

\* First category with the id, in sequence order, or None.
get_category_by_id(dataset, cat_id) ==
    LET hits == {i \in DOMAIN dataset.categories : dataset.categories[i].id = cat_id}
    IN  IF hits = {} THEN None
        ELSE Some(dataset.categories[CHOOSE i \in hits : \A j \in hits : i <= j])

get_category_by_name(dataset, name) ==
    LET hits == {i \in DOMAIN dataset.categories : dataset.categories[i].name = name}
    IN  IF hits = {} THEN None
        ELSE Some(dataset.categories[CHOOSE i \in hits : \A j \in hits : i <= j])

\* A file name is kept as stem and extension: Path(file_name).stem is .stem.
FileName(stem, ext) == [stem |-> stem, ext |-> ext]

(***************************************************************************)
(* formats/coco.py                                                         *)
(* A COCO file: [info, categories, images, annotations]; info is None when *)
(* the key is absent.                                                      *)
(***************************************************************************)
\* dict semantics: a later entry with the same key replaces the earlier one.
LastIndex(seq, id) ==
    LET hits == {i \in DOMAIN seq : seq[i].id = id}
    IN  IF hits = {} THEN 0 ELSE Max(hits)

COCOReader_category_name(categories, category_id) ==
    IF LastIndex(categories, category_id) = 0 THEN "unknown"
    ELSE categories[LastIndex(categories, category_id)].name

COCOReader_annotation(ann, categories) ==
    Annotation(from_xywh(ann.bbox[1], ann.bbox[2], ann.bbox[3], ann.bbox[4]),
               ann.category_id, COCOReader_category_name(categories, ann.category_id),
               FALSE, FALSE, ann.area, ann.iscrowd)

COCOReader_annotations(anns, categories) ==
    [j \in DOMAIN anns |-> COCOReader_annotation(anns[j], categories)]

COCOReader_image_annotations_KeepOrphans(coco_data, k) ==
    IF LastIndex(coco_data.images, coco_data.images[k].id) # k THEN <<>>
    ELSE COCOReader_annotations(
             SelectSeq(coco_data.annotations,
                       LAMBDA a : \/ a.image_id = coco_data.images[k].id
                                  \/ LastIndex(coco_data.images, a.image_id) = 0),
             coco_data.categories)
\* The annotations added to image k: image_map[id] is the last image
\* declared with the id, and an annotation goes to image_map[image_id].
COCOReader_image_annotations(coco_data, k) ==
    IF LastIndex(coco_data.images, coco_data.images[k].id) # k THEN <<>>
    ELSE COCOReader_annotations(
             SelectSeq(coco_data.annotations,
                       LAMBDA a : a.image_id = coco_data.images[k].id),
             coco_data.categories)

COCOReader_read(coco_data) ==
    Dataset([k \in DOMAIN coco_data.images |->
                Image(coco_data.images[k].file_name, coco_data.images[k].width,
                      coco_data.images[k].height,
                      COCOReader_image_annotations(coco_data, k),
                      Some(coco_data.images[k].id))],
            [i \in DOMAIN coco_data.categories |->
                Category(coco_data.categories[i].id, coco_data.categories[i].name,
                         coco_data.categories[i].supercategory)],
            IF IsNone(coco_data.info) THEN EmptyInfo ELSE Val(coco_data.info))

COCOWriter_assign_ids_Sequential(images) ==
    [idx \in DOMAIN images |->
        IF IsNone(images[idx].image_id)
        THEN [images[idx] EXCEPT
                 !.image_id = Some(Cardinality({i \in 1..idx : IsNone(images[i].image_id)}))]
        ELSE images[idx]]
\* The images as the writer leaves them: an image without an id gets idx.
COCOWriter_assign_ids(images) ==
    [idx \in DOMAIN images |->
        IF IsNone(images[idx].image_id)
        THEN [images[idx] EXCEPT !.image_id = Some(idx)]
        ELSE images[idx]]

COCOWriter_image_annotations(image, annotation_id) ==
    [j \in DOMAIN image.annotations |->
        [id |-> annotation_id + j - 1,
         image_id |-> Val(image.image_id),
         category_id |-> image.annotations[j].category_id,
         bbox |-> to_xywh(image.annotations[j].bbox),
         area |-> Some(image.annotations[j].area),
         iscrowd |-> image.annotations[j].iscrowd,
         segmentation |-> <<>>]]

\* Annotations of images k.. flattened, numbered from annotation_id.
RECURSIVE COCOWriter_annotations(_, _, _)
COCOWriter_annotations(images, k, annotation_id) ==
    IF k > Len(images) THEN <<>>
    ELSE COCOWriter_image_annotations(images[k], annotation_id)
         \o COCOWriter_annotations(images, k + 1,
                                   annotation_id + Len(images[k].annotations))

COCOWriter_file(dataset, images) ==
    [info |-> Some(dataset.info),
     categories |-> [i \in DOMAIN dataset.categories |->
         [id |-> dataset.categories[i].id, name |-> dataset.categories[i].name,
          supercategory |->
              IF IsNone(dataset.categories[i].supercategory)
                 \/ Val(dataset.categories[i].supercategory) = ""
              THEN None ELSE dataset.categories[i].supercategory]],
     images |-> [k \in DOMAIN images |->
         [id |-> Val(images[k].image_id), file_name |-> images[k].file_name,
          width |-> images[k].width, height |-> images[k].height]],
     annotations |-> COCOWriter_annotations(images, 1, 1)]

\* The file written, and the dataset as the writer leaves it: the writer
\* sets image.image_id on the images of the dataset it is given.
COCOWriter_written(dataset, images) ==
    [file |-> COCOWriter_file(dataset, images),
     dataset |-> [dataset EXCEPT !.images = images]]
COCOWriter_write(dataset) ==
    COCOWriter_written(dataset, COCOWriter_assign_ids(dataset.images))

(***************************************************************************)
(* Text tokens.  A token of a label line or the text of an xml element is  *)
(* an integer literal ("int", its value), a decimal literal with six       *)
(* decimals ("dec", its value in millionths) or anything else ("word").    *)
(***************************************************************************)
Million == 1000000
IntTok(n) == [k |-> "int", v |-> n]
DecTok(m) == [k |-> "dec", v |-> m]
WordTok == [k |-> "word", v |-> 0]

\* int(text) and float(text) raise ValueError on what they cannot parse.
int_ok(t) == t.k = "int"
int_of(t) == t.v
float_ok(t) == t.k \in {"int", "dec"}
float_of(t) == IF t.k = "int" THEN IntToFloat(t.v)
               ELSE RoundRat(t.v * TicksPerPixel, Million)
\* f"{x:.6f}"
format_6f(n) ==
    DecTok(IF n < 0 THEN 0 - RoundHalfEven((0 - n) * Million, TicksPerPixel)
           ELSE RoundHalfEven(n * Million, TicksPerPixel))

NoError == [exc |-> "", what |-> "", name |-> "", listed |-> <<>>]
Error(exc, what) == [exc |-> exc, what |-> what, name |-> "", listed |-> <<>>]
Failed(r) == r.err # NoError

\* The outcome of reading a sequence of records: the exception raised, or
\* the items read.  A loop is its first step, then the rest; an exception
\* in a step ends the loop.
Raise(err) == [err |-> err, items |-> <<>>]
Items(items) == [err |-> NoError, items |-> items]
Then(one, rest) ==
    IF Failed(one) THEN one
    ELSE IF Failed(rest) THEN rest
    ELSE Items(one.items \o rest.items)

(***************************************************************************)
(* formats/yolo.py                                                         *)
(* A label directory is a function from stems to label files; a label file *)
(* is a sequence of lines, a line the sequence of its tokens (a blank line *)
(* has none).  A classes file is a sequence of stripped lines.             *)
(***************************************************************************)
\* Stems in the order sorted() gives their paths.
StemOrder == <<"a", "b", "c">>
FallbackExts == <<".jpg", ".jpeg", ".png", ".JPG", ".JPEG", ".PNG">>

\* class_names[class_id] if class_id < len(class_names) else 'unknown',
\* with Python's indexing: a negative index counts from the end.  The
\* outcome is the name as the one item, or the IndexError.
class_name(class_names, class_id) ==
    IF class_id < Len(class_names)
    THEN IF class_id >= 0
         THEN Items(<<class_names[class_id + 1]>>)
         ELSE IF 0 - class_id <= Len(class_names)
         THEN Items(<<class_names[Len(class_names) + class_id + 1]>>)
         ELSE Raise(Error("IndexError", "list index out of range"))
    ELSE Items(<<"unknown">>)

YOLOReader_annotation(bbox, class_id, name) ==
    IF Failed(name) THEN name
    ELSE Items(<<Annotation(bbox, class_id, name.items[1], FALSE, FALSE, None, 0)>>)

\* One line of a label file: skipped (no annotation), an annotation, or an
\* exception.
YOLOReader_line(parts, class_names, width, height) ==
    IF Len(parts) = 0 \/ Len(parts) # 5
    THEN Items(<<>>)
    ELSE IF ~int_ok(parts[1]) \/ \E i \in 2..5 : ~float_ok(parts[i])
    THEN Raise(Error("ValueError", "invalid literal"))
    ELSE YOLOReader_annotation(
             from_yolo(float_of(parts[2]), float_of(parts[3]), float_of(parts[4]),
                       float_of(parts[5]), width, height),
             int_of(parts[1]), class_name(class_names, int_of(parts[1])))

\* The lines i.. of a label file, in order.
RECURSIVE YOLOReader_lines(_, _, _, _, _)
YOLOReader_lines(lines, i, class_names, width, height) ==
    IF i > Len(lines) THEN Items(<<>>)
    ELSE Then(YOLOReader_line(lines[i], class_names, width, height),
              YOLOReader_lines(lines, i + 1, class_names, width, height))

\* The image file of a label file: stem + image_ext, else the first
\* fallback extension that exists, else None.
YOLOReader_find_image(stem, image_files, image_ext) ==
    IF FileName(stem, image_ext) \in DOMAIN image_files
    THEN Some(FileName(stem, image_ext))
    ELSE LET hits == {i \in DOMAIN FallbackExts :
                        FileName(stem, FallbackExts[i]) \in DOMAIN image_files}
         IN  IF hits = {} THEN None
             ELSE Some(FileName(stem,
                                FallbackExts[CHOOSE i \in hits : \A j \in hits : i <= j]))

YOLOReader_image(image_name, size, annotations) ==
    IF Failed(annotations) THEN annotations
    ELSE Items(<<Image(image_name, size.width, size.height, annotations.items, None)>>)

\* One label file: skipped (no image file, no PIL), an image, or an exception.
YOLOReader_file(lines, found, image_files, class_names, pil) ==
    IF IsNone(found) \/ ~pil THEN Items(<<>>)
    ELSE YOLOReader_image(Val(found), image_files[Val(found)],
                          YOLOReader_lines(lines, 1, class_names,
                                           image_files[Val(found)].width,
                                           image_files[Val(found)].height))

\* The label files of stems k.. of StemOrder, in order.
RECURSIVE YOLOReader_files(_, _, _, _, _, _)
YOLOReader_files(labels, k, image_files, class_names, image_ext, pil) ==
    IF k > Len(StemOrder) THEN Items(<<>>)
    ELSE IF StemOrder[k] \notin DOMAIN labels
    THEN YOLOReader_files(labels, k + 1, image_files, class_names, image_ext, pil)
    ELSE Then(YOLOReader_file(labels[StemOrder[k]],
                              YOLOReader_find_image(StemOrder[k], image_files, image_ext),
                              image_files, class_names, pil),
              YOLOReader_files(labels, k + 1, image_files, class_names, image_ext, pil))

\* The outcome of a reader: the exception raised, or the Dataset.
ReadResult(images, categories, info) ==
    [err |-> images.err,
     dataset |-> IF Failed(images) THEN EmptyDataset
                 ELSE Dataset(images.items, categories, info)]

YOLOReader_categories(class_names) ==
    [i \in DOMAIN class_names |-> Category(i - 1, class_names[i], None)]
YOLOReader_labels(labels, image_files, class_names, image_ext, pil) ==
    ReadResult(YOLOReader_files(labels, 1, image_files, class_names, image_ext, pil),
               YOLOReader_categories(class_names), EmptyInfo)
YOLOReader_read(labels, image_files, classes, image_ext, pil) ==
    YOLOReader_labels(labels, image_files, SelectSeq(classes, LAMBDA line : line # ""),
                      image_ext, pil)

\* sorted(categories, key=id): stable.
RECURSIVE sorted_by_id(_)
sorted_by_id(cats) ==
    IF Len(cats) = 0 THEN <<>>
    ELSE LET c == cats[Len(cats)]
             s == sorted_by_id(SubSeq(cats, 1, Len(cats) - 1))
             n == Cardinality({i \in DOMAIN s : s[i].id <= c.id})
         IN  SubSeq(s, 1, n) \o <<c>> \o SubSeq(s, n + 1, Len(s))

YOLOWriter_line(category_id, yolo) ==
    <<IntTok(category_id), format_6f(yolo[1]), format_6f(yolo[2]),
      format_6f(yolo[3]), format_6f(yolo[4])>>
YOLOWriter_label_file(image) ==
    [j \in DOMAIN image.annotations |->
        YOLOWriter_line(image.annotations[j].category_id,
                        to_yolo(image.annotations[j].bbox, image.width, image.height))]

\* The label files written: a later image with the same stem overwrites.
YOLOWriter_labels(images) ==
    [stem \in {images[k].file_name.stem : k \in DOMAIN images} |->
        LET ks == {k \in DOMAIN images : images[k].file_name.stem = stem}
        IN  YOLOWriter_label_file(images[Max(ks)])]

names_of(categories) == [i \in DOMAIN categories |-> categories[i].name]
YOLOWriter_classes(dataset) == names_of(sorted_by_id(dataset.categories))

YOLOWriter_write(dataset) ==
    [labels |-> YOLOWriter_labels(dataset.images),
     classes |-> YOLOWriter_classes(dataset)]

(***************************************************************************)
(* formats/pascal_voc.py                                                   *)
(* An xml directory is a function from stems to xml files.  An element     *)
(* that is missing or has no text is None.                                 *)
(***************************************************************************)
\* Category names in the order sorted() gives them.
NameOrder == <<"cat", "dog", "unknown">>
sorted_names(S) == SelectSeq(NameOrder, LAMBDA n : n \in S)
IndexOf(seq, e) == CHOOSE i \in DOMAIN seq : seq[i] = e

\* First pass: the names of all objects of all files.
PascalVOCReader_names(xml_dir, xml_files) ==
    UNION {{Val(xml_dir[xml_files[f]].objects[j].name) :
               j \in {i \in DOMAIN xml_dir[xml_files[f]].objects :
                        ~IsNone(xml_dir[xml_files[f]].objects[i].name)}} :
           f \in DOMAIN xml_files}

\* Ids in the order the names are first met, file by file.
RECURSIVE PascalVOCReader_encounter(_, _, _, _)
PascalVOCReader_encounter(xml_dir, xml_files, f, seen) ==
    IF f > Len(xml_files) THEN seen
    ELSE LET objs == xml_dir[xml_files[f]].objects
             names == [j \in DOMAIN objs |-> objs[j].name]
             fresh == SelectSeq(names, LAMBDA n : ~IsNone(n) /\ Val(n) \notin Range(seen))
             first == {j \in DOMAIN fresh : \A i \in 1..(j - 1) : fresh[i] # fresh[j]}
             add == [j \in 1..Cardinality(first) |->
                       Val(fresh[CHOOSE i \in first :
                                   Cardinality({h \in first : h <= i}) = j])]
         IN  PascalVOCReader_encounter(xml_dir, xml_files, f + 1, seen \o add)
PascalVOCReader_category_names_Encounter(xml_dir, xml_files) ==
    PascalVOCReader_encounter(xml_dir, xml_files, 1, <<>>)
\* enumerate(sorted(categories_set))
PascalVOCReader_category_names(xml_dir, xml_files) ==
    sorted_names(PascalVOCReader_names(xml_dir, xml_files))

\* int(elem.text) if the element has text else 0
int_or_zero(elem) == IF IsNone(elem) THEN 0 ELSE int_of(Val(elem))

PascalVOCReader_annotation(b, category_id, name, difficult, truncated) ==
    Items(<<Annotation(BBox(float_of(Val(b.xmin)), float_of(Val(b.ymin)),
                            float_of(Val(b.xmax)), float_of(Val(b.ymax))),
                       category_id, name, difficult # 0, truncated # 0, None, 0)>>)

PascalVOCReader_bndbox(obj, b, category_names) ==
    IF IsNone(b.xmin) \/ IsNone(b.ymin) \/ IsNone(b.xmax) \/ IsNone(b.ymax)
    THEN Items(<<>>)
    ELSE IF ~float_ok(Val(b.xmin)) \/ ~float_ok(Val(b.ymin))
            \/ ~float_ok(Val(b.xmax)) \/ ~float_ok(Val(b.ymax))
    THEN Raise(Error("ValueError", "could not convert"))
    ELSE PascalVOCReader_annotation(b, IndexOf(category_names, Val(obj.name)) - 1,
                                    Val(obj.name), int_or_zero(obj.difficult),
                                    int_or_zero(obj.truncated))

\* One object element: skipped, an annotation, or an exception.
PascalVOCReader_object(obj, category_names) ==
    IF IsNone(obj.name)
    THEN Items(<<>>)
    ELSE IF (~IsNone(obj.difficult) /\ ~int_ok(Val(obj.difficult)))
            \/ (~IsNone(obj.truncated) /\ ~int_ok(Val(obj.truncated)))
    THEN Raise(Error("ValueError", "invalid literal"))
    ELSE IF IsNone(obj.bndbox)
    THEN Items(<<>>)
    ELSE PascalVOCReader_bndbox(obj, Val(obj.bndbox), category_names)

RECURSIVE PascalVOCReader_objects(_, _, _)
PascalVOCReader_objects(objs, j, category_names) ==
    IF j > Len(objs) THEN Items(<<>>)
    ELSE Then(PascalVOCReader_object(objs[j], category_names),
              PascalVOCReader_objects(objs, j + 1, category_names))

PascalVOCReader_image(xml, annotations) ==
    IF Failed(annotations) THEN annotations
    ELSE Items(<<Image(Val(xml.filename), int_of(Val(Val(xml.size).width)),
                       int_of(Val(Val(xml.size).height)), annotations.items, None)>>)

\* One xml file of the second pass: skipped, an image, or an exception.
PascalVOCReader_file(xml, category_names) ==
    IF IsNone(xml.filename) \/ IsNone(xml.size)
    THEN Items(<<>>)
    ELSE IF IsNone(Val(xml.size).width) \/ IsNone(Val(xml.size).height)
    THEN Items(<<>>)
    ELSE IF ~int_ok(Val(Val(xml.size).width)) \/ ~int_ok(Val(Val(xml.size).height))
    THEN Raise(Error("ValueError", "invalid literal"))
    ELSE PascalVOCReader_image(xml, PascalVOCReader_objects(xml.objects, 1,
                                                            category_names))

\* Second pass over the files f.. in the order glob listed them.
RECURSIVE PascalVOCReader_files(_, _, _, _)
PascalVOCReader_files(xml_dir, xml_files, f, category_names) ==
    IF f > Len(xml_files) THEN Items(<<>>)
    ELSE Then(PascalVOCReader_file(xml_dir[xml_files[f]], category_names),
              PascalVOCReader_files(xml_dir, xml_files, f + 1, category_names))

PascalVOCReader_categories(category_names) ==
    [i \in DOMAIN category_names |-> Category(i - 1, category_names[i], None)]
PascalVOCReader_second_pass(xml_dir, xml_files, category_names) ==
    ReadResult(PascalVOCReader_files(xml_dir, xml_files, 1, category_names),
               PascalVOCReader_categories(category_names), EmptyInfo)
\* xml_files: the stems of the directory in the order glob lists them.
PascalVOCReader_read(xml_dir, xml_files) ==
    PascalVOCReader_second_pass(xml_dir, xml_files,
                                PascalVOCReader_category_names(xml_dir, xml_files))

XmlObject(name, truncated, difficult, bndbox) ==
    [name |-> name, pose |-> "Unspecified", truncated |-> truncated,
     difficult |-> difficult, bndbox |-> bndbox]
XmlBndbox(xmin, ymin, xmax, ymax) ==
    [xmin |-> xmin, ymin |-> ymin, xmax |-> xmax, ymax |-> ymax]
XmlFile(filename, size, objects) ==
    [folder |-> "images", filename |-> filename, path |-> filename,
     database |-> "Unknown", size |-> size, depth |-> "3", segmented |-> "0",
     objects |-> objects]

\* str(int(x)) of a corner coordinate
PascalVOCWriter_coordinate(x) == Some(IntTok(FloatToInt(x)))
PascalVOCWriter_object(ann) ==
    XmlObject(Some(ann.category_name),
              Some(IntTok(IF ann.truncated THEN 1 ELSE 0)),
              Some(IntTok(IF ann.difficult THEN 1 ELSE 0)),
              Some(XmlBndbox(PascalVOCWriter_coordinate(ann.bbox.x_min),
                             PascalVOCWriter_coordinate(ann.bbox.y_min),
                             PascalVOCWriter_coordinate(ann.bbox.x_max),
                             PascalVOCWriter_coordinate(ann.bbox.y_max))))
PascalVOCWriter_file(image) ==
    XmlFile(Some(image.file_name),
            Some([width |-> Some(IntTok(image.width)),
                  height |-> Some(IntTok(image.height))]),
            [j \in DOMAIN image.annotations |->
                PascalVOCWriter_object(image.annotations[j])])

\* The xml files written: a later image with the same stem overwrites.
PascalVOCWriter_write(dataset) ==
    LET images == dataset.images
    IN  [stem \in {images[k].file_name.stem : k \in DOMAIN images} |->
            LET ks == {k \in DOMAIN images : images[k].file_name.stem = stem}
            IN  PascalVOCWriter_file(images[Max(ks)])]

(***************************************************************************)
(* The file system.  A location holds a COCO file, a label directory with  *)
(* the classes file beside it, and an xml directory; a directory maps each *)
(* stem to its file, or to None.  A path is the name of its location.      *)
(***************************************************************************)
Locs == {"in", "mid", "out"}
Stems == Range(StemOrder)
EmptyDir == [s \in Stems |-> None]
EmptyLoc == [json |-> None, labels |-> EmptyDir, classes |-> None, xml |-> EmptyDir]
ClassesPath(loc) == CASE loc = "in" -> "in/classes.txt"
                      [] loc = "mid" -> "mid/classes.txt"
                      [] loc = "out" -> "out/classes.txt"
\* The files that exist in a directory.
Files(dir) == [s \in {t \in Stems : ~IsNone(dir[t])} |-> Val(dir[s])]
\* A directory after the files of `written` are written into it.
Overwrite(dir, written) ==
    [s \in Stems |-> IF s \in DOMAIN written THEN Some(written[s]) ELSE dir[s]]

(***************************************************************************)
(* converter.py                                                            *)
(***************************************************************************)
Formats == <<"coco", "yolo", "voc">>
DefaultImageExt == ".jpg"
Kwargs(images_dir, classes_file, image_ext, output_classes_file) ==
    [images_dir |-> images_dir, classes_file |-> classes_file,
     image_ext |-> image_ext, output_classes_file |-> output_classes_file]
\* `not x` for an optional string: None or the empty string.
Falsy(o) == IsNone(o) \/ Val(o) = ""

Unsupported(format_type) ==
    [exc |-> "ValueError", what |-> "Unsupported format", name |-> format_type,
     listed |-> Formats]
ReaderCall(reader, path, images_dir, classes_file, image_ext) ==
    [reader |-> reader, path |-> path, images_dir |-> images_dir,
     classes_file |-> classes_file, image_ext |-> image_ext]

\* The outcome of Converter.read: the readers invoked with their
\* arguments, and the reader's outcome.
Converter_read_outcome(calls, r) ==
    [err |-> r.err, calls |-> calls, dataset |-> r.dataset]
Converter_read_raise(err, calls) ==
    [err |-> err, calls |-> calls, dataset |-> EmptyDataset]

Converter_read_coco(source_path, fs) ==
    Converter_read_outcome(
        <<ReaderCall("coco", source_path, "", "", "")>>,
        IF IsNone(fs[source_path].json)
        THEN [err |-> Error("FileNotFoundError", "json"), dataset |-> EmptyDataset]
        ELSE [err |-> NoError, dataset |-> COCOReader_read(Val(fs[source_path].json))])

\* The location of the classes file a path names, if the file exists.
ClassesFileAt(classes_file, fs) ==
    {l \in Locs : ClassesPath(l) = classes_file /\ ~IsNone(fs[l].classes)}

Converter_read_yolo_OnlyImagesDir(source_path, images_dir, classes_file, image_ext, fs, image_files, pil) ==
    IF Falsy(images_dir)
    THEN Converter_read_raise(Error("ValueError", "YOLO format requires parameters"),
                              <<>>)
    ELSE Converter_read_outcome(
             <<ReaderCall("yolo", source_path, Val(images_dir),
                          IF IsNone(classes_file) THEN "" ELSE Val(classes_file),
                          image_ext)>>,
             IF IsNone(classes_file) \/ ClassesFileAt(Val(classes_file), fs) = {}
             THEN [err |-> Error("FileNotFoundError", "classes"),
                   dataset |-> EmptyDataset]
             ELSE YOLOReader_read(
                      Files(fs[source_path].labels), image_files,
                      Val(fs[CHOOSE l \in ClassesFileAt(Val(classes_file), fs) :
                                TRUE].classes),
                      image_ext, pil))
Converter_read_yolo(source_path, images_dir, classes_file, image_ext, fs, image_files, pil) ==
    IF Falsy(images_dir) \/ Falsy(classes_file)
    THEN Converter_read_raise(Error("ValueError", "YOLO format requires parameters"),
                              <<>>)
    ELSE Converter_read_outcome(
             <<ReaderCall("yolo", source_path, Val(images_dir), Val(classes_file),
                          image_ext)>>,
             IF ClassesFileAt(Val(classes_file), fs) = {}
             THEN [err |-> Error("FileNotFoundError", "classes"),
                   dataset |-> EmptyDataset]
             ELSE YOLOReader_read(
                      Files(fs[source_path].labels), image_files,
                      Val(fs[CHOOSE l \in ClassesFileAt(Val(classes_file), fs) :
                                TRUE].classes),
                      image_ext, pil))

\* Converter.read; xml_files is the order glob lists the xml directory in.
Converter_read(format_type, source_path, kwargs, fs, image_files, pil, xml_files) ==
    IF format_type \notin Range(Formats)
    THEN Converter_read_raise(Unsupported(format_type), <<>>)
    ELSE IF format_type = "coco"
    THEN Converter_read_coco(source_path, fs)
    ELSE IF format_type = "yolo"
    THEN Converter_read_yolo(source_path, kwargs.images_dir, kwargs.classes_file,
                             IF IsNone(kwargs.image_ext) THEN DefaultImageExt
                             ELSE Val(kwargs.image_ext),
                             fs, image_files, pil)
    ELSE Converter_read_outcome(
             <<ReaderCall("voc", source_path, "", "", "")>>,
             PascalVOCReader_read(Files(fs[source_path].xml), xml_files))

\* The outcome of Converter.write: the writers invoked, and the file
\* system and the dataset as the writer leaves them.
Converter_write_outcome(err, calls, fs, dataset) ==
    [err |-> err, calls |-> calls, fs |-> fs, dataset |-> dataset]

Converter_write_coco(w, target_path, fs) ==
    Converter_write_outcome(NoError, <<"coco">>,
                            [fs EXCEPT ![target_path].json = Some(w.file)], w.dataset)

\* classes_at: the location of output_classes_file.
Converter_write_yolo(w, dataset, target_path, classes_at, fs) ==
    Converter_write_outcome(
        NoError, <<"yolo">>,
        [l \in Locs |->
            [fs[l] EXCEPT
                !.classes = IF l = classes_at THEN Some(w.classes) ELSE @,
                !.labels = IF l = target_path THEN Overwrite(@, w.labels) ELSE @]],
        dataset)

\* Converter.write
Converter_write(format_type, dataset, target_path, kwargs, fs) ==
    IF format_type \notin Range(Formats)
    THEN Converter_write_outcome(Unsupported(format_type), <<>>, fs, dataset)
    ELSE IF format_type = "coco"
    THEN Converter_write_coco(COCOWriter_write(dataset), target_path, fs)
    ELSE IF format_type = "yolo"
    THEN Converter_write_yolo(
             YOLOWriter_write(dataset), dataset, target_path,
             IF Falsy(kwargs.output_classes_file) THEN target_path
             ELSE CHOOSE l \in Locs : ClassesPath(l) = Val(kwargs.output_classes_file),
             fs)
    ELSE Converter_write_outcome(
             NoError, <<"voc">>,
             [fs EXCEPT ![target_path].xml =
                            Overwrite(@, PascalVOCWriter_write(dataset))],
             dataset)

(***************************************************************************)
(* State.                                                                  *)
(***************************************************************************)
VARIABLES
    disk,          \* the file system: a location for each path
    image_files,   \* the images directory: file name -> pixel size
    pil,           \* whether the image-size probe (PIL) can be imported
    plan,          \* the Converter calls the caller has still to make
    call,          \* the call in progress
    pc,            \* "idle", "called", "read", "returned" or "failed"
    dataset,       \* the Dataset of the call in progress
    read_result,   \* the Dataset as the reader returned it
    returned,      \* the Datasets returned to the caller so far
    error,         \* the exception that ended the call in progress
    reader_calls,  \* readers invoked by the call in progress
    writer_calls   \* writers invoked by the call in progress

vars == <<disk, image_files, pil, plan, call, pc, dataset, read_result, returned,
          error, reader_calls, writer_calls>>

Call(op, source_format, target_format, source_path, target_path, kwargs) ==
    [op |-> op, source_format |-> source_format, target_format |-> target_format,
     source_path |-> source_path, target_path |-> target_path, kwargs |-> kwargs]
NoCall == Call("", "", "", "in", "in", Kwargs(None, None, None, None))

\* The caller makes its next call: Converter.convert or Converter.read.
Invoke ==
    /\ pc \in {"idle", "returned"}
    /\ Len(plan) > 0
    /\ call' = Head(plan)
    /\ plan' = Tail(plan)
    /\ pc' = "called"
    /\ dataset' = EmptyDataset
    /\ read_result' = EmptyDataset
    /\ error' = NoError
    /\ reader_calls' = <<>>
    /\ writer_calls' = <<>>
    /\ UNCHANGED <<disk, image_files, pil, returned>>

\* The orders glob can list the xml files of a directory in.
GlobOrders(dir) ==
    LET present == DOMAIN Files(dir)
        n == Cardinality(present)
    IN  {o \in [1..n -> present] : \A i, j \in 1..n : i # j => o[i] # o[j]}

\* self.read(source_format, source_path, **kwargs)
Read ==
    /\ pc = "called"
    /\ \E xml_files \in GlobOrders(disk[call.source_path].xml) :
        \E r \in {Converter_read(call.source_format, call.source_path, call.kwargs,
                                 disk, image_files, pil, xml_files)} :
              /\ reader_calls' = r.calls
              /\ error' = r.err
              /\ dataset' = r.dataset
              /\ read_result' = r.dataset
              /\ pc' = IF Failed(r) THEN "failed"
                       ELSE IF call.op = "convert" THEN "read" ELSE "returned"
              /\ returned' = IF ~Failed(r) /\ call.op = "read"
                             THEN Append(returned, r.dataset) ELSE returned
    /\ UNCHANGED <<disk, image_files, pil, plan, call, writer_calls>>

\* self.write(target_format, dataset, target_path, **kwargs); return dataset
Write ==
    /\ pc = "read"
    /\ \E w \in {Converter_write(call.target_format, dataset, call.target_path,
                                  call.kwargs, disk)} :
           /\ writer_calls' = w.calls
           /\ error' = w.err
           /\ disk' = w.fs
           /\ dataset' = w.dataset
           /\ pc' = IF Failed(w) THEN "failed" ELSE "returned"
           /\ returned' = IF Failed(w) THEN returned ELSE Append(returned, w.dataset)
    /\ UNCHANGED <<image_files, pil, plan, call, read_result, reader_calls>>

Next == Invoke \/ Read \/ Write

(***************************************************************************)
(* Inputs.  Each family is a set of scenarios: the files at "in" and the   *)
(* calls the caller makes.  The images directory holds the three images    *)
(* every input names, with the sizes the inputs declare.                   *)
(***************************************************************************)
MaxAnns == 2
MaxImages == 2
MaxLines == 2

SeqsUpTo(S, n) == UNION {[1..k -> S] : k \in 0..n}

ImageNames == {FileName("a", ".jpg"), FileName("a", ".png"), FileName("b", ".jpg")}
ImageSize(fn) == IF fn.stem = "b" THEN [width |-> 2, height |-> 4]
                 ELSE IF fn.ext = ".png" THEN [width |-> 2, height |-> 2]
                 ELSE [width |-> 4, height |-> 2]
ImagesDir == [fn \in ImageNames |-> ImageSize(fn)]

Scenario(loc, calls, probe) == [loc |-> loc, plan |-> calls, pil |-> probe]

\* The keyword arguments a caller gives for a source at `path`.
SourceKwargs(format, path) ==
    IF format = "yolo"
    THEN Kwargs(Some("images"), Some(ClassesPath(path)), None, None)
    ELSE Kwargs(None, None, None, None)
\* A -> B -> A, then the result read back.
RoundTrip(A, B) ==
    <<Call("convert", A, B, "in", "mid", SourceKwargs(A, "in")),
      Call("convert", B, A, "mid", "out", SourceKwargs(B, "mid")),
      Call("read", A, "", "out", "out", SourceKwargs(A, "out"))>>
OneConvert(A, B) == <<Call("convert", A, B, "in", "mid", SourceKwargs(A, "in"))>>

\* ---- COCO inputs
OnePixel == TicksPerPixel
UnitBox == <<0, 0, OnePixel, OnePixel>>
CocoCategory(id, name) == [id |-> id, name |-> name, supercategory |-> None]
CocoImage(id, fn) == [id |-> id, file_name |-> fn, width |-> ImageSize(fn).width,
                      height |-> ImageSize(fn).height]
\* choices[j] = <<image_id, category_id, bbox>>
CocoAnnotations(choices) ==
    [j \in DOMAIN choices |->
        [id |-> j, image_id |-> choices[j][1], category_id |-> choices[j][2],
         bbox |-> choices[j][3], area |-> None, iscrowd |-> 0, segmentation |-> <<>>]]
CocoImages(names) == [k \in DOMAIN names |-> CocoImage(k, names[k])]
CocoFile(info, categories, images, annotations) ==
    [info |-> info, categories |-> categories, images |-> images,
     annotations |-> annotations]
CocoLoc(file) == [EmptyLoc EXCEPT !.json = Some(file)]

CatLists ==
    {<<CocoCategory(0, "cat")>>,
     <<CocoCategory(1, "cat")>>,
     <<CocoCategory(0, "cat"), CocoCategory(1, "dog")>>,
     <<CocoCategory(1, "cat"), CocoCategory(3, "dog")>>,
     <<CocoCategory(1, "dog"), CocoCategory(0, "cat")>>,
     <<CocoCategory(1, "cat"), CocoCategory(1, "dog")>>}
CatIds == {0, 1, 3}

\* categories and category ids vary
CocoNamesInputs ==
    {CocoLoc(CocoFile(None, cats, CocoImages(<<FileName("a", ".jpg")>>),
                      CocoAnnotations(ch))) :
        cats \in CatLists, ch \in SeqsUpTo({1} \X CatIds \X {UnitBox}, MaxAnns)}
\* images, their file names and the images the annotations name vary
CocoCountsInputs ==
    {CocoLoc(CocoFile(Some("{year}"), <<CocoCategory(0, "cat")>>, CocoImages(names),
                      CocoAnnotations(ch))) :
        names \in SeqsUpTo(ImageNames, MaxImages),
        ch \in SeqsUpTo({1, 2} \X {0} \X {UnitBox}, MaxAnns)}
\* the box varies, over floats whose sums are and are not floats
BoxNums == {0, 1, 2^MantissaBits}
CocoBoxesInputs ==
    {CocoLoc(CocoFile(None, <<CocoCategory(0, "cat")>>,
                      CocoImages(<<FileName("a", ".jpg")>>),
                      CocoAnnotations(<<<<1, 0, box>>>>))) :
        box \in BoxNums \X BoxNums \X BoxNums \X BoxNums}

\* ---- YOLO inputs
Half == DecTok(500000)
ValidLine(class_id) == <<IntTok(class_id), Half, Half, Half, Half>>
LineKinds ==
    {ValidLine(0), ValidLine(1), ValidLine(2), ValidLine(0 - 1), ValidLine(0 - 3),
     <<>>,
     <<IntTok(0), Half, Half, Half>>,
     <<IntTok(0), Half, Half, Half, Half, Half>>,
     <<WordTok, Half, Half, Half, Half>>,
     <<IntTok(0), Half, WordTok, Half, Half>>,
     <<DecTok(0), Half, Half, Half, Half>>}
ClassesFiles == {<<"cat">>, <<"cat", "dog">>, <<>>, <<"cat", "", "dog">>}
YoloLoc(a, b, classes) ==
    [EmptyLoc EXCEPT !.labels = [EmptyDir EXCEPT !["a"] = a, !["b"] = b],
                     !.classes = Some(classes)]

\* the lines of a.txt vary; b.txt has one valid line
YoloLinesInputs ==
    {YoloLoc(Some(lines), Some(<<ValidLine(0)>>), classes) :
        lines \in SeqsUpTo(LineKinds, MaxLines), classes \in ClassesFiles}
\* label files whose lines all parse
YoloCleanInputs ==
    {YoloLoc(Some(lines), b, classes) :
        lines \in SeqsUpTo({ValidLine(0), ValidLine(1), ValidLine(2)}, MaxLines),
        b \in {None, Some(<<ValidLine(0)>>)},
        classes \in {<<"cat">>, <<"cat", "dog">>}}

\* ---- VOC inputs
Tok0 == Some(IntTok(0))
Tok1 == Some(IntTok(1))
GoodBox == Some(XmlBndbox(Tok0, Tok0, Tok1, Tok1))
GoodObject(name) == XmlObject(Some(name), Tok0, Tok0, GoodBox)
GoodSize(fn) == Some([width |-> Some(IntTok(ImageSize(fn).width)),
                      height |-> Some(IntTok(ImageSize(fn).height))])
GoodXml(fn, names) ==
    XmlFile(Some(fn), GoodSize(fn), [j \in DOMAIN names |-> GoodObject(names[j])])
VocLoc(a, b, c) ==
    [EmptyLoc EXCEPT !.xml = [EmptyDir EXCEPT !["a"] = a, !["b"] = b, !["c"] = c]]

AJpg == FileName("a", ".jpg")
\* files with a defect of the image or of one object
DefectXmls ==
    {GoodXml(AJpg, <<"cat">>),
     XmlFile(None, GoodSize(AJpg), <<GoodObject("dog")>>),
     XmlFile(Some(AJpg), None, <<GoodObject("dog")>>),
     XmlFile(Some(AJpg), Some([width |-> None, height |-> Some(IntTok(2))]),
             <<GoodObject("dog")>>),
     XmlFile(Some(AJpg), Some([width |-> Some(WordTok), height |-> Some(IntTok(2))]),
             <<GoodObject("dog")>>),
     XmlFile(Some(AJpg), Some([width |-> Some(IntTok(4)), height |-> Some(DecTok(2000000))]),
             <<GoodObject("dog")>>),
     XmlFile(Some(AJpg), GoodSize(AJpg),
             <<XmlObject(None, Tok0, Tok0, GoodBox), GoodObject("dog")>>),
     XmlFile(Some(AJpg), GoodSize(AJpg),
             <<GoodObject("cat"), XmlObject(Some("dog"), Tok0, Tok0, None)>>),
     XmlFile(Some(AJpg), GoodSize(AJpg),
             <<XmlObject(Some("dog"), None, None,
                         Some(XmlBndbox(None, Tok0, Tok1, Tok1))),
               GoodObject("cat")>>),
     XmlFile(Some(AJpg), GoodSize(AJpg),
             <<XmlObject(Some("dog"), None, Tok1,
                         Some(XmlBndbox(Tok0, Tok0, Tok1, Some(DecTok(1500000)))))>>)}
VocDefectInputs ==
    {VocLoc(Some(a), Some(b), None) : a \in DefectXmls, b \in DefectXmls}
\* three files; the names of their objects vary
NameLists == {<<>>, <<"cat">>, <<"dog">>, <<"dog", "cat">>}
VocNamesInputs ==
    {VocLoc(Some(GoodXml(AJpg, a)), Some(GoodXml(FileName("b", ".jpg"), b)),
            Some(GoodXml(FileName("c", ".jpg"), c))) :
        a \in NameLists, b \in NameLists, c \in NameLists}
\* the file names the xml files declare vary
VocCleanInputs ==
    {VocLoc(Some(GoodXml(fa, a)), b, None) :
        fa \in ImageNames, a \in {<<>>, <<"cat">>, <<"dog">>},
        b \in {None} \cup {Some(GoodXml(fb, <<"dog">>)) : fb \in ImageNames}}

\* ---- calls with any format name and any keyword arguments
FormatNames == Range(Formats) \cup {"csv"}
AllFormatsLoc ==
    [json |-> Some(CocoFile(None, <<CocoCategory(0, "cat")>>,
                            CocoImages(<<AJpg>>), CocoAnnotations(<<<<1, 0, UnitBox>>>>))),
     labels |-> [EmptyDir EXCEPT !["a"] = Some(<<ValidLine(0)>>)],
     classes |-> Some(<<"cat">>),
     xml |-> [EmptyDir EXCEPT !["a"] = Some(GoodXml(AJpg, <<"cat">>))]]
AnyCalls ==
    {<<Call("convert", src, tgt, "in", "mid",
            Kwargs(images_dir, classes_file, image_ext, None))>> :
        src \in FormatNames, tgt \in FormatNames,
        images_dir \in {None, Some(""), Some("images")},
        classes_file \in {None, Some(""), Some(ClassesPath("in"))},
        image_ext \in {None, Some(".png")}}

Scenarios ==
    {Scenario(loc, RoundTrip("coco", B), TRUE) :
        loc \in CocoNamesInputs \cup CocoCountsInputs, B \in Range(Formats)}
    \cup {Scenario(loc, RoundTrip("coco", "coco"), TRUE) : loc \in CocoBoxesInputs}
    \cup {Scenario(loc, RoundTrip("yolo", B), TRUE) :
            loc \in YoloCleanInputs, B \in Range(Formats)}
    \cup {Scenario(loc, OneConvert("yolo", "coco"), TRUE) : loc \in YoloLinesInputs}
    \cup {Scenario(YoloLoc(Some(<<ValidLine(0)>>), None, <<"cat">>),
                   OneConvert("yolo", "voc"), FALSE)}
    \cup {Scenario(loc, RoundTrip("voc", B), TRUE) :
            loc \in VocCleanInputs, B \in Range(Formats)}
    \cup {Scenario(loc, OneConvert("voc", "coco"), TRUE) :
            loc \in VocDefectInputs \cup VocNamesInputs}
    \cup {Scenario(AllFormatsLoc, calls, TRUE) : calls \in AnyCalls}

Init ==
    \E sc \in Scenarios :
        /\ disk = [l \in Locs |-> IF l = "in" THEN sc.loc ELSE EmptyLoc]
        /\ image_files = ImagesDir
        /\ pil = sc.pil
        /\ plan = sc.plan
        /\ call = NoCall
        /\ pc = "idle"
        /\ dataset = EmptyDataset
        /\ read_result = EmptyDataset
        /\ returned = <<>>
        /\ error = NoError
        /\ reader_calls = <<>>
        /\ writer_calls = <<>>

Spec == Init /\ [][Next]_vars

(***************************************************************************)
(* BBox.to_yolo followed by BBox.from_yolo, on one box of one image.       *)
(***************************************************************************)
MaxDim == 4
\* corner coordinates in whole pixels, up to magnitudes that are floats
\* only in steps of several pixels
CornerPixels == {0 - 3, 0, 1, 3, 7, 11, 2^MantissaBits, 5 * 2^MantissaBits}
Corners == {IntToFloat(c) : c \in CornerPixels}
Boxes ==
    {BBox(x[1], y[1], x[2], y[2]) :
        x \in {xx \in Corners \X Corners : xx[1] <= xx[2]},
        y \in {yy \in {IntToFloat(0), IntToFloat(3), IntToFloat(5 * 2^MantissaBits)}
                      \X {IntToFloat(3), IntToFloat(7), IntToFloat(5 * 2^MantissaBits)} :
                  yy[1] <= yy[2]}}
OneBox(box, img_width, img_height) ==
    Dataset(<<Image(FileName("a", ".jpg"), img_width, img_height,
                    <<Annotation(box, 0, "cat", FALSE, FALSE, None, 0)>>, None)>>,
            <<Category(0, "cat", None)>>, EmptyInfo)

GeometryInit ==
    \E box \in Boxes, img_width \in 1..MaxDim, img_height \in 1..MaxDim :
        /\ dataset = OneBox(box, img_width, img_height)
        /\ pc = "box"
        /\ disk = [l \in Locs |-> EmptyLoc]
        /\ image_files = ImagesDir
        /\ pil = TRUE
        /\ plan = <<>>
        /\ call = NoCall
        /\ read_result = EmptyDataset
        /\ returned = <<>>
        /\ error = NoError
        /\ reader_calls = <<>>
        /\ writer_calls = <<>>

\* BBox.from_yolo(*box.to_yolo(W, H), W, H)
YoloInverse ==
    /\ pc = "box"
    /\ pc' = "corners"
    /\ \E yolo \in {to_yolo(dataset.images[1].annotations[1].bbox,
                            dataset.images[1].width, dataset.images[1].height)} :
           read_result' =
               OneBox(from_yolo(yolo[1], yolo[2], yolo[3], yolo[4],
                                dataset.images[1].width, dataset.images[1].height),
                      dataset.images[1].width, dataset.images[1].height)
    /\ UNCHANGED <<disk, image_files, pil, plan, call, dataset, returned, error,
                   reader_calls, writer_calls>>

GeometrySpec == GeometryInit /\ [][YoloInverse]_vars

(***************************************************************************)
(* Converter.write called with any Dataset, not only one a reader made.    *)
(***************************************************************************)
Quarters(q) == q * (TicksPerPixel \div 4)
\* a box of whole pixels, (1, 2)-(5, 8), and one of fractions,
\* (1.75, -0.75)-(2.5, 5.5)
WriterAnnotationLists ==
    LET whole == Annotation(BBox(IntToFloat(1), IntToFloat(2), IntToFloat(5),
                                 IntToFloat(8)), 0, "cat", FALSE, FALSE, None, 0)
        fractional == Annotation(BBox(Quarters(7), Quarters(0 - 3), Quarters(10),
                                      Quarters(22)), 1, "dog", TRUE, FALSE, None, 0)
    IN  {<<>>, <<whole>>, <<fractional>>, <<whole, fractional>>}
\* images a.jpg, b.jpg, ... in this order, each with or without an image_id
WriterDatasets ==
    {Dataset([k \in DOMAIN ids |->
                 Image(FileName(StemOrder[k], ".jpg"),
                       ImageSize(FileName(StemOrder[k], ".jpg")).width,
                       ImageSize(FileName(StemOrder[k], ".jpg")).height,
                       anns[k], ids[k])],
             <<Category(0, "cat", None), Category(1, "dog", Some("animal"))>>,
             EmptyInfo) :
        ids \in SeqsUpTo({None, Some(1), Some(2)}, MaxImages),
        anns \in [1..MaxImages -> WriterAnnotationLists]}

WriterInit ==
    \E ds \in WriterDatasets, target_format \in Range(Formats) :
        /\ dataset = ds
        /\ read_result = ds
        /\ call = Call("write", "", target_format, "in", "mid",
                       Kwargs(None, None, None, None))
        /\ pc = "read"
        /\ disk = [l \in Locs |-> EmptyLoc]
        /\ image_files = ImagesDir
        /\ pil = TRUE
        /\ plan = <<>>
        /\ returned = <<>>
        /\ error = NoError
        /\ reader_calls = <<>>
        /\ writer_calls = <<>>

WriterSpec == WriterInit /\ [][Write]_vars

(***************************************************************************)
(* Properties.                                                             *)
(***************************************************************************)
RECURSIVE TotalAnnotations(_, _)
TotalAnnotations(images, k) ==
    IF k > Len(images) THEN 0
    ELSE Len(images[k].annotations) + TotalAnnotations(images, k + 1)

\* The call in progress has been through Converter.read.
AfterRead == pc \in {"read", "returned", "failed"}
\* The call in progress ended in an exception raised inside a reader.
ReaderRaised ==
    pc = "failed" /\ reader_calls # <<>> /\ error.what # "Unsupported format"
\* The reader of the call in progress returned a Dataset (read_result).
ReaderReturned == AfterRead /\ reader_calls # <<>> /\ ~ReaderRaised

\* A round trip A -> B -> A has been made and its result read back.
RoundTripDone == pc = "returned" /\ Len(returned) = 3
Original == returned[1]
Final == returned[3]
UniqueStem(images, i) ==
    \A k \in DOMAIN images : images[k].file_name.stem = images[i].file_name.stem => k = i

\* The annotation's category is one of the dataset's categories.
Declared(ds, ann) ==
    \E c \in DOMAIN ds.categories :
        /\ ds.categories[c].id = ann.category_id
        /\ ds.categories[c].name = ann.category_name
DistinctFileNames(images) ==
    \A i, k \in DOMAIN images : images[i].file_name = images[k].file_name => i = k

\* C1: after A -> B -> A every annotation of a declared category has the
\* category name it had in the original dataset (images matched by the
\* stem of their file name).
C1_RoundTripKeepsNames ==
    RoundTripDone =>
        \A i \in DOMAIN Original.images : \A k \in DOMAIN Final.images :
            (/\ UniqueStem(Original.images, i)
             /\ Final.images[k].file_name.stem = Original.images[i].file_name.stem
             /\ Len(Final.images[k].annotations) = Len(Original.images[i].annotations))
            => \A j \in DOMAIN Original.images[i].annotations :
                   Declared(Original, Original.images[i].annotations[j])
                   => Final.images[k].annotations[j].category_name
                          = Original.images[i].annotations[j].category_name

\* C2: after A -> B -> A a dataset of distinctly named image files has as
\* many images and as many annotations as the original dataset.
C2_RoundTripKeepsCounts ==
    (RoundTripDone /\ DistinctFileNames(Original.images)) =>
        /\ Len(Final.images) = Len(Original.images)
        /\ TotalAnnotations(Final.images, 1) = TotalAnnotations(Original.images, 1)

\* A COCO file at "in" has been read, written to "mid" and read again.
CocoSelfTripDone ==
    /\ Len(returned) >= 2
    /\ ~IsNone(disk["in"].json)
    /\ ~IsNone(disk["mid"].json)
CocoOriginal == Val(disk["in"].json)
\* The boxes of the original file that belong to image k, in file order.
OriginalBoxes(k) ==
    IF \E m \in DOMAIN CocoOriginal.images :
           m > k /\ CocoOriginal.images[m].id = CocoOriginal.images[k].id
    THEN <<>>
    ELSE LET mine == SelectSeq(CocoOriginal.annotations,
                               LAMBDA a : a.image_id = CocoOriginal.images[k].id)
         IN  [j \in DOMAIN mine |-> mine[j].bbox]
CategoryIds(image) == {image.annotations[j].category_id : j \in DOMAIN image.annotations}
\* Counts and category ids are kept by COCO read, write, read.
CocoSelfTripKeepsShape ==
    /\ Len(returned[2].images) = Len(returned[1].images)
    /\ Len(returned[2].categories) = Len(returned[1].categories)
    /\ \A k \in DOMAIN returned[1].images :
          /\ Len(returned[2].images[k].annotations)
                 = Len(returned[1].images[k].annotations)
          /\ CategoryIds(returned[2].images[k]) = CategoryIds(returned[1].images[k])
          /\ Len(returned[2].images[k].annotations) = Len(OriginalBoxes(k))

\* C3 as stated: COCO read, write, read keeps the counts, the category ids
\* of every image, and every box's (x, y, width, height) exactly.
C3_CocoRoundTripExact ==
    CocoSelfTripDone =>
        /\ CocoSelfTripKeepsShape
        /\ \A k \in DOMAIN returned[2].images :
              \A j \in DOMAIN returned[2].images[k].annotations :
                  to_xywh(returned[2].images[k].annotations[j].bbox)
                      = OriginalBoxes(k)[j]

\* C3 amended: x and y are kept exactly; width (height) is kept exactly
\* whenever x + width (y + height) is a float.
C3_CocoRoundTripUpToRounding ==
    CocoSelfTripDone =>
        /\ CocoSelfTripKeepsShape
        /\ \A k \in DOMAIN returned[2].images :
              \A j \in DOMAIN returned[2].images[k].annotations :
                  LET got == to_xywh(returned[2].images[k].annotations[j].bbox)
                      box == OriginalBoxes(k)[j]
                  IN  /\ got[1] = box[1]
                      /\ got[2] = box[2]
                      /\ IsFloat(box[1] + box[3]) => got[3] = box[3]
                      /\ IsFloat(box[2] + box[4]) => got[4] = box[4]
\* A box with x > 0 and a positive width whose sum is a float came back.
C3_Witness ==
    /\ CocoSelfTripDone
    /\ \E k \in DOMAIN returned[2].images :
          \E j \in DOMAIN returned[2].images[k].annotations :
              /\ OriginalBoxes(k)[j][1] > 0
              /\ OriginalBoxes(k)[j][3] > 0
              /\ IsFloat(OriginalBoxes(k)[j][1] + OriginalBoxes(k)[j][3])
              /\ to_xywh(returned[2].images[k].annotations[j].bbox) = OriginalBoxes(k)[j]

\* C4: the Dataset convert returns equals the Dataset the reader produced.
C4_WriteLeavesDataset ==
    (pc = "returned" /\ call.op = "convert") => dataset = read_result

\* C5: an unsupported-format error names the bad identifier, lists the
\* valid ones, and is raised before any reader or writer is invoked.
C5_UnsupportedBeforeAnyReader ==
    (pc = "failed" /\ error.what = "Unsupported format") =>
        /\ error.name \in {call.source_format, call.target_format}
        /\ error.name \notin Range(Formats)
        /\ error.listed = <<"coco", "yolo", "voc">>
        /\ reader_calls = <<>>
        /\ writer_calls = <<>>

\* C6: with source yolo, a missing images_dir or classes_file is a
\* parameter error before any reader or writer is invoked; otherwise the
\* YOLO reader is invoked with those values and image_ext, '.jpg' if absent.
C6_YoloSourceParameters ==
    (AfterRead /\ call.source_format = "yolo") =>
        IF \/ call.kwargs.images_dir \in {None, Some("")}
           \/ call.kwargs.classes_file \in {None, Some("")}
        THEN /\ pc = "failed"
             /\ error.exc = "ValueError"
             /\ error.what = "YOLO format requires parameters"
             /\ reader_calls = <<>>
             /\ writer_calls = <<>>
        ELSE reader_calls =
                 <<[reader |-> "yolo", path |-> call.source_path,
                    images_dir |-> call.kwargs.images_dir[1],
                    classes_file |-> call.kwargs.classes_file[1],
                    image_ext |-> IF call.kwargs.image_ext = None THEN ".jpg"
                                  ELSE call.kwargs.image_ext[1]]>>
\* A call with images_dir given and classes_file missing has failed.
C6_Witness ==
    /\ pc = "failed"
    /\ call.source_format = "yolo"
    /\ call.kwargs.images_dir = Some("images")
    /\ call.kwargs.classes_file = None
    /\ call.kwargs.image_ext = None
\* The YOLO reader read the label directory of the call in progress.
YoloReaderInvoked ==
    AfterRead /\ call.source_format = "yolo" /\ reader_calls # <<>> /\ pil
FiveTokenLines(lines) == SelectSeq(lines, LAMBDA parts : Len(parts) = 5)
LabelFiles == Files(disk[call.source_path].labels)

\* No line of a label file starts with a negative integer.
NoNegativeClassId ==
    \A stem \in DOMAIN LabelFiles : \A i \in DOMAIN LabelFiles[stem] :
        Len(LabelFiles[stem][i]) > 0 =>
            ~(LabelFiles[stem][i][1].k = "int" /\ LabelFiles[stem][i][1].v < 0)

\* C7: the YOLO reader never aborts on a label line without a negative
\* class id, and every image has one annotation for each of its 5-token
\* lines, in file order.
C7_OneAnnotationPerFiveTokenLine ==
    (YoloReaderInvoked /\ NoNegativeClassId) =>
        /\ ~ReaderRaised
        /\ \A stem \in DOMAIN LabelFiles :
              \E k \in DOMAIN read_result.images :
                  /\ read_result.images[k].file_name.stem = stem
                  /\ Len(read_result.images[k].annotations)
                         = Len(FiveTokenLines(LabelFiles[stem]))
                  /\ \A j \in DOMAIN read_result.images[k].annotations :
                         read_result.images[k].annotations[j].category_id
                             = FiveTokenLines(LabelFiles[stem])[j][1].v

\* The VOC reader read the xml directory of the call in progress.
VocReaderInvoked == AfterRead /\ call.source_format = "voc" /\ reader_calls # <<>>
XmlFiles == Files(disk[call.source_path].xml)
\* The file has a filename, a width and a height.
HasImageElements(xml) ==
    /\ xml.filename # None
    /\ xml.size # None
    /\ xml.size[1].width # None
    /\ xml.size[1].height # None
\* The file's width and height are integers.
HasIntegerSize(xml) ==
    /\ HasImageElements(xml)
    /\ xml.size[1].width[1].k = "int"
    /\ xml.size[1].height[1].k = "int"
HasAllElements(obj) ==
    /\ obj.name # None
    /\ obj.bndbox # None
    /\ obj.bndbox[1].xmin # None /\ obj.bndbox[1].ymin # None
    /\ obj.bndbox[1].xmax # None /\ obj.bndbox[1].ymax # None

\* C8: no defect of a file or of an object aborts the VOC read; the files
\* with a filename and an integer width and height are the images, and the
\* objects with a name and four coordinates are their annotations.
C8_VocDefectsNeverAbort ==
    VocReaderInvoked =>
        /\ ~ReaderRaised
        /\ Len(read_result.images)
               = Cardinality({stem \in DOMAIN XmlFiles : HasIntegerSize(XmlFiles[stem])})
        /\ TotalAnnotations(read_result.images, 1)
               = Cardinality({<<stem, j>> \in Stems \X (1..MaxAnns) :
                                 /\ stem \in DOMAIN XmlFiles
                                 /\ HasIntegerSize(XmlFiles[stem])
                                 /\ j \in DOMAIN XmlFiles[stem].objects
                                 /\ HasAllElements(XmlFiles[stem].objects[j])})

\* The names of the objects of all files of the directory.
ObjectNames ==
    {n \in Range(NameOrder) :
        \E stem \in DOMAIN XmlFiles : \E j \in DOMAIN XmlFiles[stem].objects :
            XmlFiles[stem].objects[j].name = <<n>>}
Rank(name) == CHOOSE r \in DOMAIN NameOrder : NameOrder[r] = name

\* C9: the categories of a VOC read are the distinct object names of the
\* directory, numbered 0.. in sorted order, whatever the order of the
\* files; an annotation's category_id is the id given to its name.
C9_VocCategoriesSortedByName ==
    (VocReaderInvoked /\ ~ReaderRaised) =>
        LET cats == read_result.categories
        IN  /\ {cats[i].name : i \in DOMAIN cats} = ObjectNames
            /\ \A i \in DOMAIN cats : cats[i].id = i - 1
            /\ \A i, j \in DOMAIN cats : i < j => Rank(cats[i].name) < Rank(cats[j].name)
            /\ \A k \in DOMAIN read_result.images :
                   \A j \in DOMAIN read_result.images[k].annotations :
                       \E i \in DOMAIN cats :
                           /\ cats[i].name
                                  = read_result.images[k].annotations[j].category_name
                           /\ cats[i].id
                                  = read_result.images[k].annotations[j].category_id
\* Two files declare cat and one dog, dog being met first: cat = 0, dog = 1.
C9_Witness ==
    /\ VocReaderInvoked /\ ~ReaderRaised
    /\ Cardinality(DOMAIN XmlFiles) = 3
    /\ Cardinality({stem \in DOMAIN XmlFiles :
                      XmlFiles[stem].objects = <<GoodObject("cat")>>}) = 2
    /\ Cardinality({stem \in DOMAIN XmlFiles :
                      XmlFiles[stem].objects = <<GoodObject("dog")>>}) = 1
    /\ Len(read_result.images) = 3
    /\ read_result.images[1].annotations[1].category_name = "dog"
    /\ read_result.images[1].annotations[1].category_id = 1
    /\ read_result.categories = <<Category(0, "cat", None), Category(1, "dog", None)>>

\* The lines of the label file are all five numbers, the first an integer.
AllLinesParse(lines) ==
    \A i \in DOMAIN lines :
        /\ Len(lines[i]) = 5
        /\ lines[i][1].k = "int"
        /\ \A t \in 2..5 : lines[i][t].k \in {"int", "dec"}
ClassNames == SelectSeq(Val(disk[call.source_path].classes), LAMBDA line : line # "")
CocoSource == Val(disk[call.source_path].json)

\* C10: a class id of a label line that is no index of the class-name
\* list, and a category_id that no category of a COCO file has, give an
\* annotation named 'unknown' with the id as given, and no error.
C10_UnknownIdNeverFails ==
    /\ YoloReaderInvoked =>
          \A stem \in DOMAIN LabelFiles :
              AllLinesParse(LabelFiles[stem]) =>
                  /\ ~ReaderRaised
                  /\ \E k \in DOMAIN read_result.images :
                        /\ read_result.images[k].file_name.stem = stem
                        /\ Len(read_result.images[k].annotations) = Len(LabelFiles[stem])
                        /\ \A j \in DOMAIN LabelFiles[stem] :
                               LabelFiles[stem][j][1].v \notin 0..(Len(ClassNames) - 1)
                               => /\ read_result.images[k].annotations[j].category_name
                                         = "unknown"
                                  /\ read_result.images[k].annotations[j].category_id
                                         = LabelFiles[stem][j][1].v
    /\ (AfterRead /\ call.source_format = "coco" /\ reader_calls # <<>>) =>
          /\ ~ReaderRaised
          /\ \A k \in DOMAIN read_result.images :
                \A j \in DOMAIN read_result.images[k].annotations :
                    (\A c \in DOMAIN CocoSource.categories :
                         CocoSource.categories[c].id
                             # read_result.images[k].annotations[j].category_id)
                    => read_result.images[k].annotations[j].category_name = "unknown"

\* The box given to to_yolo and the box from_yolo gave back.
GivenBox == dataset.images[1].annotations[1].bbox
RestoredBox == read_result.images[1].annotations[1].bbox
\* The largest distance between a corner coordinate and its restored value.
CornerError ==
    Max({Abs(RestoredBox.x_min - GivenBox.x_min), Abs(RestoredBox.x_max - GivenBox.x_max),
         Abs(RestoredBox.y_min - GivenBox.y_min), Abs(RestoredBox.y_max - GivenBox.y_max)})
Magnitude ==
    Max({Abs(GivenBox.x_min), Abs(GivenBox.x_max),
         Abs(GivenBox.y_min), Abs(GivenBox.y_max)})
\* The distance between neighbouring floats at the magnitude v.
Ulp(v) == 2^ShiftFor(v)
\* An absolute tolerance well below a pixel, as 1e-4 is.
Tolerance == TicksPerPixel \div 4

\* C11 as stated: from_yolo after to_yolo gives every corner of every box
\* back within the absolute tolerance.
C11_InverseWithinTolerance ==
    pc = "corners" => CornerError <= Tolerance

\* C11 amended: from_yolo after to_yolo gives every corner back within two
\* units in the last place of the largest corner magnitude.
C11_InverseWithinUlps ==
    pc = "corners" => CornerError <= 2 * Ulp(Magnitude)
\* A box of an image 3 wide came back with a corner moved by rounding.
C11_Witness ==
    /\ pc = "corners"
    /\ dataset.images[1].width = 3
    /\ GivenBox.x_min < GivenBox.x_max
    /\ CornerError > 0
    /\ CornerError <= 2 * Ulp(Magnitude)

\* Converter.write has written the Dataset read_result as a COCO file.
CocoWritten == pc = "returned" /\ call.op = "write" /\ call.target_format = "coco"
WrittenCoco == Val(disk[call.target_path].json)
\* The annotations of the images from the k-th on, each with the index of
\* the image that owns it, in image order then annotation order.
RECURSIVE Flattened(_, _)
Flattened(images, k) ==
    IF k > Len(images) THEN <<>>
    ELSE [j \in DOMAIN images[k].annotations |->
             [owner |-> k, annotation |-> images[k].annotations[j]]]
         \o Flattened(images, k + 1)
\* Every image is written, one that has an image_id with that id, and the
\* annotations are written flattened, numbered 1..N, under their owner's id.
CocoWriterKeepsAndFlattens ==
    /\ Len(WrittenCoco.images) = Len(read_result.images)
    /\ \A k \in DOMAIN read_result.images :
          read_result.images[k].image_id # None
          => WrittenCoco.images[k].id = read_result.images[k].image_id[1]
    /\ Len(WrittenCoco.annotations) = Len(Flattened(read_result.images, 1))
    /\ \A n \in DOMAIN WrittenCoco.annotations :
          /\ WrittenCoco.annotations[n].id = n
          /\ WrittenCoco.annotations[n].image_id
                 = WrittenCoco.images[Flattened(read_result.images, 1)[n].owner].id
          /\ WrittenCoco.annotations[n].category_id
                 = Flattened(read_result.images, 1)[n].annotation.category_id
          /\ WrittenCoco.annotations[n].bbox
                 = to_xywh(Flattened(read_result.images, 1)[n].annotation.bbox)

\* C12 as stated: ids that are set are kept, the images lacking one get
\* 1, 2, ... in their order, and the annotations are flattened with ids 1..N
\* under their owner's written id.
C12_LackingImagesNumberedFromOne ==
    CocoWritten =>
        /\ CocoWriterKeepsAndFlattens
        /\ \A k \in DOMAIN read_result.images :
              read_result.images[k].image_id = None
              => WrittenCoco.images[k].id
                     = Cardinality({i \in 1..k : read_result.images[i].image_id = None})

\* C12 amended: ids that are set are kept, an image lacking one gets its
\* 1-based position in the image list, and the annotations are flattened
\* with ids 1..N under their owner's written id.
C12_LackingImagesGetPosition ==
    CocoWritten =>
        /\ CocoWriterKeepsAndFlattens
        /\ \A k \in DOMAIN read_result.images :
              read_result.images[k].image_id = None => WrittenCoco.images[k].id = k
\* An image with an id, then one without, two annotations each.
C12_Witness ==
    /\ CocoWritten
    /\ Len(read_result.images) = 2
    /\ read_result.images[1].image_id = Some(1)
    /\ read_result.images[2].image_id = None
    /\ WrittenCoco.images[2].id = 2
    /\ Len(WrittenCoco.annotations) = 4
    /\ WrittenCoco.annotations[4].image_id = 2

\* Converter.write has written the Dataset read_result as VOC xml files.
VocWritten == pc = "returned" /\ call.op = "write" /\ call.target_format = "voc"
WrittenXml(k) == Val(disk[call.target_path].xml[read_result.images[k].file_name.stem])
\* The written integer is the stored coordinate rounded: at most half a
\* pixel away from it.
RoundedTo(token, stored) ==
    /\ token.k = "int"
    /\ 2 * Abs(token.v * TicksPerPixel - stored) <= TicksPerPixel

\* C13: every written xmin, ymin, xmax, ymax is the stored corner rounded
\* to an integer: unchanged if whole, at most 0.5 away otherwise.
C13_VocBoxRounded ==
    VocWritten =>
        \A k \in DOMAIN read_result.images :
            \A j \in DOMAIN read_result.images[k].annotations :
                /\ RoundedTo(Val(Val(WrittenXml(k).objects[j].bndbox).xmin),
                             read_result.images[k].annotations[j].bbox.x_min)
                /\ RoundedTo(Val(Val(WrittenXml(k).objects[j].bndbox).ymin),
                             read_result.images[k].annotations[j].bbox.y_min)
                /\ RoundedTo(Val(Val(WrittenXml(k).objects[j].bndbox).xmax),
                             read_result.images[k].annotations[j].bbox.x_max)
                /\ RoundedTo(Val(Val(WrittenXml(k).objects[j].bndbox).ymax),
                             read_result.images[k].annotations[j].bbox.y_max)

\* C15: if the image ids that are set are pairwise distinct, the written
\* image ids are pairwise distinct.
C15_WrittenImageIdsDistinct ==
    (/\ CocoWritten
     /\ \A i, k \in DOMAIN read_result.images :
            (/\ read_result.images[i].image_id # None
             /\ read_result.images[i].image_id = read_result.images[k].image_id)
            => i = k)
    => \A i, k \in DOMAIN WrittenCoco.images :
           WrittenCoco.images[i].id = WrittenCoco.images[k].id => i = k

\* The COCO reader read the file of the call in progress.
CocoReaderInvoked == AfterRead /\ call.source_format = "coco" /\ reader_calls # <<>>
Declared_image_ids == {CocoSource.images[k].id : k \in DOMAIN CocoSource.images}
AnnotationsOf(image_id) ==
    SelectSeq(CocoSource.annotations, LAMBDA a : a.image_id = image_id)
\* The image's annotations are these annotations of the file, in this order.
HoldsInOrder(image, anns) ==
    /\ Len(image.annotations) = Len(anns)
    /\ \A j \in DOMAIN anns :
          /\ image.annotations[j].category_id = anns[j].category_id
          /\ image.annotations[j].bbox.x_min = anns[j].bbox[1]
          /\ image.annotations[j].bbox.y_min = anns[j].bbox[2]

\* C14: reading a COCO file raises no error; the images and categories
\* are those of the file in order; the annotations of a declared image id
\* are all attached, in file order, to one image with that id; and an
\* annotation of an undeclared image id is attached to no image.
C14_OnlyOrphansDropped ==
    CocoReaderInvoked =>
        /\ ~ReaderRaised
        /\ Len(read_result.images) = Len(CocoSource.images)
        /\ \A k \in DOMAIN CocoSource.images :
              /\ read_result.images[k].file_name = CocoSource.images[k].file_name
              /\ read_result.images[k].image_id = Some(CocoSource.images[k].id)
        /\ Len(read_result.categories) = Len(CocoSource.categories)
        /\ \A i \in DOMAIN CocoSource.categories :
              /\ read_result.categories[i].id = CocoSource.categories[i].id
              /\ read_result.categories[i].name = CocoSource.categories[i].name
        /\ \A id \in Declared_image_ids :
              \E k \in DOMAIN read_result.images :
                  /\ read_result.images[k].image_id = Some(id)
                  /\ HoldsInOrder(read_result.images[k], AnnotationsOf(id))
                  /\ \A i \in DOMAIN read_result.images :
                         (i # k /\ read_result.images[i].image_id = Some(id))
                         => read_result.images[i].annotations = <<>>
        /\ TotalAnnotations(read_result.images, 1)
               = Len(SelectSeq(CocoSource.annotations,
                               LAMBDA a : a.image_id \in Declared_image_ids))
\* A file whose first annotation names no declared image and whose second
\* names the one image has been read: the image has one annotation.
C14_Witness ==
    /\ CocoReaderInvoked
    /\ Len(CocoSource.images) = 1
    /\ Len(CocoSource.annotations) = 2
    /\ CocoSource.annotations[1].image_id \notin Declared_image_ids
    /\ CocoSource.annotations[2].image_id \in Declared_image_ids
    /\ Len(read_result.images) = 1
    /\ Len(read_result.images[1].annotations) = 1

\* C16: in a Dataset a reader returned, an annotation whose category_id
\* get_category_by_id resolves has the name of the category it returns.
C16_NameIsResolvedName ==
    ReaderReturned =>
        \A k \in DOMAIN read_result.images :
            \A j \in DOMAIN read_result.images[k].annotations :
                get_category_by_id(read_result,
                                   read_result.images[k].annotations[j].category_id) # None
                => read_result.images[k].annotations[j].category_name
                       = get_category_by_id(
                             read_result,
                             read_result.images[k].annotations[j].category_id)[1].name

====
